---- MODULE Spec2Model ----
(***************************************************************************)
(* An m-way B-tree: BTreeNode / BTree of src/b-tree.cpp, and the earlier   *)
(* variant of the same classes in src/unnamed/part_000.                    *)
(*                                                                         *)
(* A node is a record [n, leaf, keys, C]. keys and C are the node's raw    *)
(* arrays, slot by slot: slots at index >= n keep whatever they held       *)
(* (a stale key, or the value Uninit that stands for memory never          *)
(* written). Array index j of the source is sequence index j + 1 here.     *)
(* A child pointer is the child's value (the tree owns its nodes and       *)
(* shares none), NullPtr, UninitPtr (a pointer slot never written) or      *)
(* MovedPtr (a slot of y whose pointer splitChild copied into z: the       *)
(* source leaves the old pointer in y as an alias beyond y->n).            *)
(***************************************************************************)
EXTENDS Integers, Sequences, FiniteSets, TLC

\* ------------------------------------------------------------ bounds
\* Orders 3..MaxOrder. A run of Spec or SpecMain takes its keys from the
\* first MaxKey entries of the test data and makes at most MaxInserts
\* inserts, at most MaxRepeats of them of a key already inserted. A run of
\* SpecDeep or SpecP takes MaxKeyDeep keys and makes at most MaxInsertsDeep
\* inserts, none of a key already inserted.
MaxOrder == 4
MaxKey == 7
MaxInserts == 7
MaxRepeats == 1
MaxKeyDeep == 10
MaxInsertsDeep == 10

Orders == 3..MaxOrder

\* The two translation units that define BTreeNode / BTree.
FileB == "b-tree.cpp"
FileP == "part_000"

\* vector<int> keys of main (part_000).
Data == <<8, 9, 10, 11, 15, 20, 17, 25, 30, 40, 50, 60, 70, 80, 90>>

FirstKeys(c) == {Data[j] : j \in 1..c}

\* An int slot never written. Reading it yields an indeterminate int.
Uninit == 0
\* The values an indeterminate int is drawn from: every key and two others.
Garbage == FirstKeys(Len(Data)) \cup {Uninit, 1}

NullPtr == [ptr |-> "null"]
UninitPtr == [ptr |-> "uninit"]
MovedPtr == [ptr |-> "moved"]
IsNode(x) == "n" \in DOMAIN x

VARIABLES file, m, run, root, inserted, ret
vars == <<file, m, run, root, inserted, ret>>

\* ------------------------------------------------------------ BTreeNode
\* (mutant) m / 2, rounded down.
tFloor(mm) == mm \div 2

\* t = (m + 1) / 2, the minimum number of children.
t(mm) == (mm + 1) \div 2

\* new int[m] (b-tree.cpp), new int[m - 1] (part_000).
KeysCap(f, mm) == IF f = FileB THEN mm ELSE mm - 1
\* new BTreeNode*[m + 1] (b-tree.cpp), new BTreeNode*[m] (part_000).
ChildCap(f, mm) == IF f = FileB THEN mm + 1 ELSE mm

\* The constructor. Both variants store up to m keys and m + 1 children
\* in a node before a split; the slots at index >= KeysCap / ChildCap lie
\* beyond the allocation in part_000 (see Touched).
BTreeNode(f, mm, isleaf) ==
    [n    |-> 0,
     leaf |-> isleaf,
     keys |-> [j \in 1..mm |-> Uninit],
     C    |-> [j \in 1..(mm + 1) |-> IF f = FileB THEN NullPtr ELSE UninitPtr]]

Max(a, b) == IF a >= b THEN a ELSE b

\* The scan `while (i >= 0 && keys[i] > k) i--`, from i; the final i.
RECURSIVE ScanDown(_, _, _)
ScanDown(x, i, k) ==
    IF i >= 0 /\ x.keys[i + 1] > k THEN ScanDown(x, i - 1, k) ELSE i

\* (mutant) `z->n = y->n - t - 1`: the sibling takes one key too few.
SiblingKeyCountShort(mm, yn) == yn - t(mm) - 1

\* The key count splitChild gives the new sibling: `z->n = y->n - t`.
SiblingKeyCount(mm, yn) == yn - t(mm)

\* (mutant) `j < z->n`: one child pointer too few is copied.
MovedCountShort(f, mm, zn) == zn

\* The number of child pointers splitChild copies from y into z:
\* `j < z->n + 1` (b-tree.cpp), `j < t` (part_000).
MovedCount(f, mm, zn) == IF f = FileB THEN zn + 1 ELSE t(mm)

\* (mutant) `y->keys[t]`: the key after the median.
MedianIndexOff(mm) == t(mm)

\* The index of the key of y that splitChild moves up: `y->keys[t-1]`.
MedianIndex(mm) == t(mm) - 1

\* (mutant) `C[i+1]->n >= m - 1`: a child is split when it is merely full.
OverfullEarly(mm, n) == n >= mm - 1

\* The test `C[i+1]->n > m - 1` of insertNonFull, on a child's key count.
Overfull(mm, n) == n > mm - 1

\* (mutant) `root->n == m - 1`: the root is split when it is merely full.
RootOverfullEarly(mm, n) == n = mm - 1

\* The test `root->n == m` of BTree::insert, on the root's key count.
RootOverfull(mm, n) == n = mm

\* splitChild(i, y) called on node s (this) with y = s.C[i]; the resulting s.
splitChild(f, mm, s, i) ==
    LET y  == s.C[i + 1]
        tt == t(mm)
        zn == SiblingKeyCount(mm, y.n)
        mv == IF y.leaf THEN 0 ELSE MovedCount(f, mm, zn)
        z0 == BTreeNode(f, mm, y.leaf)
        z  == [z0 EXCEPT
                 !.n = zn,
                 !.keys = [j \in 1..mm |->
                             IF j <= zn THEN y.keys[j + tt] ELSE z0.keys[j]],
                 !.C = [j \in 1..(mm + 1) |->
                             IF j <= mv THEN y.C[j + tt] ELSE z0.C[j]]]
        y1 == [y EXCEPT
                 !.n = tt - 1,
                 !.C = [j \in 1..(mm + 1) |->
                             IF j > tt /\ j <= tt + mv THEN MovedPtr ELSE y.C[j]]]
    IN  [s EXCEPT
           !.n = s.n + 1,
           !.C = [j \in 1..(mm + 1) |->
                    IF j - 1 = i THEN y1
                    ELSE IF j - 1 = i + 1 THEN z
                    ELSE IF j - 1 >= i + 2 /\ j - 1 <= s.n + 1 THEN s.C[j - 1]
                    ELSE s.C[j]],
           !.keys = [j \in 1..mm |->
                    IF j - 1 = i THEN y.keys[MedianIndex(mm) + 1]
                    ELSE IF j - 1 > i /\ j - 1 <= s.n THEN s.keys[j - 1]
                    ELSE s.keys[j]]]

\* Whether splitChild(i, y) on s reads or writes a slot beyond an allocation.
splitTouchesBeyond(f, mm, s, i) ==
    LET y  == s.C[i + 1]
        mv == IF y.leaf THEN 0
              ELSE MovedCount(f, mm, SiblingKeyCount(mm, y.n))
    IN  \/ y.n - 1 >= KeysCap(f, mm)
        \/ mv > 0 /\ t(mm) + mv - 1 >= ChildCap(f, mm)
        \/ s.n + 1 >= ChildCap(f, mm)
        \/ s.n >= KeysCap(f, mm)

\* insertNonFull(k) on node x. The result is the record
\*   node   : x afterwards
\*   maxn   : the largest key count any node held at any point of the call
\*   splits : the splitChild calls made, innermost first, each as
\*            [s |-> the caller before, i |-> index, r |-> the caller after]
\*   beyond : whether a slot beyond an allocation was touched
\*   fault  : whether a pointer that is no node was dereferenced
RECURSIVE insertNonFull(_, _, _, _)
insertNonFull(f, mm, x, k) ==
    LET i == ScanDown(x, x.n - 1, k)
    IN  IF x.leaf
        THEN [node   |-> [x EXCEPT
                            !.n = x.n + 1,
                            !.keys = [j \in 1..mm |->
                                        IF j - 1 = i + 1 THEN k
                                        ELSE IF j - 1 > i + 1 /\ j - 1 <= x.n
                                             THEN x.keys[j - 1]
                                        ELSE x.keys[j]]],
              maxn   |-> x.n + 1,
              splits |-> << >>,
              beyond |-> x.n >= KeysCap(f, mm),
              fault  |-> FALSE]
        ELSE IF ~IsNode(x.C[i + 2])
        THEN [node |-> x, maxn |-> x.n, splits |-> << >>,
              beyond |-> i + 1 >= ChildCap(f, mm), fault |-> TRUE]
        ELSE LET r  == insertNonFull(f, mm, x.C[i + 2], k)
                 x1 == [x EXCEPT !.C[i + 2] = r.node]
             IN  IF r.fault
                 THEN [r EXCEPT !.node = x1]
                 ELSE IF Overfull(mm, r.node.n)
                 THEN LET s1 == splitChild(f, mm, x1, i + 1)
                      IN  [node   |-> s1,
                           maxn   |-> Max(r.maxn, s1.n),
                           splits |-> Append(r.splits,
                                        [s |-> x1, i |-> i + 1, r |-> s1]),
                           beyond |-> r.beyond
                                      \/ splitTouchesBeyond(f, mm, x1, i + 1),
                           fault  |-> FALSE]
                 ELSE [r EXCEPT !.node = x1, !.maxn = Max(r.maxn, x.n)]

\* BTree::insert(k) on the tree with root rt. insertNonFull's record, with
\* node the new root and grew telling whether the `root->n == m` branch ran.
insert(f, mm, rt, k) ==
    IF ~IsNode(rt)
    THEN LET r0 == BTreeNode(f, mm, TRUE)
         IN  [node   |-> [r0 EXCEPT !.keys[1] = k, !.n = 1],
              maxn   |-> 1,
              splits |-> << >>,
              beyond |-> FALSE,
              fault  |-> FALSE,
              grew   |-> FALSE]
    ELSE LET r == insertNonFull(f, mm, rt, k)
         IN  IF ~r.fault /\ RootOverfull(mm, r.node.n)
             THEN LET s0 == [BTreeNode(f, mm, FALSE) EXCEPT !.C[1] = r.node]
                      s1 == splitChild(f, mm, s0, 0)
                  IN  [node   |-> s1,
                       maxn   |-> r.maxn,
                       splits |-> Append(r.splits,
                                    [s |-> s0, i |-> 0, r |-> s1]),
                       beyond |-> r.beyond
                                  \/ splitTouchesBeyond(f, mm, s0, 0),
                       fault  |-> FALSE,
                       grew   |-> TRUE]
             ELSE [node |-> r.node, maxn |-> r.maxn, splits |-> r.splits,
                   beyond |-> r.beyond, fault |-> r.fault, grew |-> FALSE]

\* The scan `while (i < n && k > keys[i]) i++`, from i; the final i.
RECURSIVE ScanUp(_, _, _)
ScanUp(x, i, k) ==
    IF i < x.n /\ k > x.keys[i + 1] THEN ScanUp(x, i + 1, k) ELSE i

\* The values `keys[i]` can yield when search reads it: the key for i < n;
\* for i >= n whatever the slot holds, and an indeterminate int when the
\* slot was never written or lies beyond the allocation.
ReadKey(f, mm, x, i) ==
    IF i < x.n THEN {x.keys[i + 1]}
    ELSE IF i >= KeysCap(f, mm) \/ x.keys[i + 1] = Uninit THEN Garbage
    ELSE {x.keys[i + 1]}

\* BTreeNode::search(k) on x: the set of its possible results, each
\*   found : whether a node is returned (not NULL)
\*   node  : the node returned, or NullPtr
\*   past  : whether `keys[i] == k` was evaluated at an index i >= n
\*   fault : whether a pointer that is no node was dereferenced
RECURSIVE search(_, _, _, _)
search(f, mm, x, k) ==
    LET i    == ScanUp(x, 0, k)
        vals == ReadKey(f, mm, x, i)
        here == i >= x.n
        hit  == IF k \in vals
                THEN {[found |-> TRUE, node |-> x, past |-> here,
                       fault |-> FALSE]}
                ELSE {}
        miss == IF vals \ {k} = {} THEN {}
                ELSE IF x.leaf
                THEN {[found |-> FALSE, node |-> NullPtr, past |-> here,
                       fault |-> FALSE]}
                ELSE IF ~IsNode(x.C[i + 1])
                THEN {[found |-> FALSE, node |-> NullPtr, past |-> here,
                       fault |-> TRUE]}
                ELSE {[o EXCEPT !.past = o.past \/ here] :
                        o \in search(f, mm, x.C[i + 1], k)}
    IN  hit \cup miss

\* BTree::search(k).
BTreeSearch(f, mm, rt, k) ==
    IF rt = NullPtr
    THEN {[found |-> FALSE, node |-> NullPtr, past |-> FALSE, fault |-> FALSE]}
    ELSE search(f, mm, rt, k)

\* Whether the in-order walk of x dereferences only nodes.
RECURSIVE Walkable(_)
Walkable(x) ==
    IsNode(x) /\ (x.leaf \/ \A j \in 1..(x.n + 1) : Walkable(x.C[j]))

\* BTreeNode::traverse() on x: the keys printed, in order.
RECURSIVE traverse(_)
traverse(x) ==
    LET RECURSIVE Loop(_)
        Loop(i) ==
            IF i < x.n
            THEN (IF x.leaf THEN << >> ELSE traverse(x.C[i + 1]))
                 \o <<x.keys[i + 1]>> \o Loop(i + 1)
            ELSE IF x.leaf THEN << >> ELSE traverse(x.C[i + 1])
    IN  Loop(0)

\* BTree::traverse().
BTreeTraverse(rt) == IF rt # NullPtr THEN traverse(rt) ELSE << >>

\* BTreeNode::collect(result) on x (part_000): result afterwards.
RECURSIVE collect(_, _)
collect(x, result) ==
    LET RECURSIVE Loop(_, _)
        Loop(i, res) ==
            IF i < x.n
            THEN Loop(i + 1,
                      Append(IF x.leaf THEN res ELSE collect(x.C[i + 1], res),
                             x.keys[i + 1]))
            ELSE IF x.leaf THEN res ELSE collect(x.C[i + 1], res)
    IN  Loop(0, result)

\* ------------------------------------------------------------ BTree::validate
\* ValidationResult, with errorMessage cut down to the check that failed.
ValidationResult(valid, msg, level) ==
    [isValid |-> valid, errorMessage |-> msg, leafLevel |-> level]

\* (mutant) `keys[i - 1] > keys[i]`: equal neighbours pass.
OutOfOrderStrict(a, b) == a > b

\* The check `keys[i - 1] >= keys[i]` of the order loop.
OutOfOrder(a, b) == a >= b

RECURSIVE validateNode(_, _, _, _)
RECURSIVE validateChildren(_, _, _, _, _)

\* The loop `for (i = 0; i <= node->n; ++i)` over the children, from i.
validateChildren(mm, node, depth, i, expectedLeafLevel) ==
    IF i > node.n THEN ValidationResult(TRUE, "", expectedLeafLevel)
    ELSE LET childResult == validateNode(mm, node.C[i + 1], depth + 1, FALSE)
         IN  IF ~childResult.isValid THEN childResult
             ELSE IF expectedLeafLevel = -1
             THEN validateChildren(mm, node, depth, i + 1,
                                   childResult.leafLevel)
             ELSE IF expectedLeafLevel # childResult.leafLevel
             THEN ValidationResult(FALSE, "levels", depth)
             ELSE validateChildren(mm, node, depth, i + 1, expectedLeafLevel)

validateNode(mm, node, depth, isRoot) ==
    IF ~IsNode(node) THEN ValidationResult(FALSE, "null", depth)
    ELSE LET minKeys == IF isRoot THEN 1 ELSE (mm + 1) \div 2 - 1
             maxKeys == mm - 1
         IN  IF node.n < minKeys \/ node.n > maxKeys
             THEN ValidationResult(FALSE, "count", depth)
             ELSE IF \E i \in 1..(node.n - 1) :
                        OutOfOrder(node.keys[i], node.keys[i + 1])
             THEN ValidationResult(FALSE, "order", depth)
             ELSE IF node.leaf THEN ValidationResult(TRUE, "", depth)
             ELSE IF \E i \in 0..node.n : ~IsNode(node.C[i + 1])
             THEN ValidationResult(FALSE, "null child", depth)
             ELSE validateChildren(mm, node, depth, 0, -1)

\* BTree::validate().
validate(mm, rt) ==
    IF rt = NullPtr THEN TRUE ELSE validateNode(mm, rt, 0, TRUE).isValid

\* ------------------------------------------------------------ program
\* file, m: the translation unit and the order the tree was built with.
\* run: the limits of the run. inserted[k]: how many times insert(k) has been
\* called. ret: the last call and what it returned or did.
Total == LET RECURSIVE Sum(_)
             Sum(S) == IF S = {} THEN 0
                       ELSE LET k == CHOOSE k \in S : TRUE
                            IN  inserted[k] + Sum(S \ {k})
         IN  Sum(DOMAIN inserted)

Repeats == Total - Cardinality({k \in DOMAIN inserted : inserted[k] > 0})

\* The keys a run searches for: every key of the run and one that is none.
Wanted == DOMAIN inserted \cup {1}

\* BTree tree(m), nothing inserted.
InitOf(f, keys, inserts, repeats) ==
    /\ file = f
    /\ m \in Orders
    /\ run = [inserts |-> inserts, repeats |-> repeats]
    /\ root = NullPtr
    /\ inserted = [k \in FirstKeys(keys) |-> 0]
    /\ ret = [op |-> "new"]

Init == InitOf(FileB, MaxKey, MaxInserts, MaxRepeats)
InitDeep == InitOf(FileB, MaxKeyDeep, MaxInsertsDeep, 0)
InitP == InitOf(FileP, MaxKeyDeep, MaxInsertsDeep, 0)

\* A run of the harness: inserts, then one query of the tree built (search,
\* traverse, collect and validate write no field of a node, so a query
\* leaves the tree as the last insert left it).
Building == ret.op \in {"new", "insert"}

\* What a call that touched a slot beyond an allocation, or dereferenced
\* a pointer that is no node, can end as.
Endings(r) ==
    IF r.fault THEN {"abort"}
    ELSE IF r.beyond THEN {"insert", "abort"}
    ELSE {"insert"}

\* tree.insert(k).
Insert(k) ==
    /\ Building
    /\ Total < run.inserts
    /\ inserted[k] = 0 \/ Repeats < run.repeats
    /\ LET r == insert(file, m, root, k)
       IN  \E e \in Endings(r) :
              /\ root' = r.node
              /\ ret' = [op |-> e, maxn |-> r.maxn, splits |-> r.splits,
                         grew |-> r.grew]
    /\ inserted' = [inserted EXCEPT ![k] = @ + 1]
    /\ UNCHANGED <<file, m, run>>

\* tree.search(k).
Search(k) ==
    /\ Building
    /\ \E o \in BTreeSearch(file, m, root, k) :
          ret' = IF o.fault THEN [op |-> "abort"]
                 ELSE [op |-> "search", k |-> k, found |-> o.found,
                       past |-> o.past]
    /\ UNCHANGED <<file, m, run, root, inserted>>

\* tree.traverse().
Traverse ==
    /\ Building
    /\ ret' = IF root = NullPtr \/ Walkable(root)
              THEN [op |-> "traverse", out |-> BTreeTraverse(root)]
              ELSE [op |-> "abort"]
    /\ UNCHANGED <<file, m, run, root, inserted>>

\* tree.validate() (b-tree.cpp).
Validate ==
    /\ Building
    /\ ret' = [op |-> "validate", valid |-> validate(m, root)]
    /\ UNCHANGED <<file, m, run, root, inserted>>

\* root->collect(result) with result empty (part_000).
Collect ==
    /\ Building
    /\ root # NullPtr
    /\ ret' = IF Walkable(root)
              THEN [op |-> "collect", out |-> collect(root, << >>)]
              ELSE [op |-> "abort"]
    /\ UNCHANGED <<file, m, run, root, inserted>>

Next ==
    \/ \E k \in DOMAIN inserted : Insert(k)
    \/ \E k \in Wanted : Search(k)
    \/ Traverse
    \/ Validate

\* main of b-tree.cpp: inserts of distinct keys, then validate().
NextDeep ==
    \/ \E k \in DOMAIN inserted : Insert(k)
    \/ Validate

NextP ==
    \/ \E k \in DOMAIN inserted : Insert(k)
    \/ Traverse
    \/ Collect

\* main's loop `for (int key : keys) tree.insert(key)`: the next key of Data.
MainInsert == Total < Len(Data) /\ Insert(Data[Total + 1])

NextMain ==
    \/ MainInsert
    \/ \E k \in Wanted : Search(k)
    \/ Traverse
    \/ Validate

\* b-tree.cpp, any keys in any order.
Spec == Init /\ [][Next]_vars
\* b-tree.cpp, the keys of Data in main's order.
SpecMain == Init /\ [][NextMain]_vars
\* b-tree.cpp, more keys, each inserted at most once, in any order.
SpecDeep == InitDeep /\ [][NextDeep]_vars
\* part_000, the same runs.
SpecP == InitP /\ [][NextP]_vars

\* ------------------------------------------------------------ vocabulary
\* ceil(mm / 2).
CeilHalf(mm) == (mm \div 2) + (mm % 2)

\* The keys a node holds: keys[0 .. n-1].
KeysOfNode(x) == [j \in 1..x.n |-> x.keys[j]]

\* The nodes of the tree below x, each with its depth and whether it is root.
RECURSIVE Nodes(_, _, _)
Nodes(x, depth, isRoot) ==
    IF ~IsNode(x) THEN {}
    ELSE {[node |-> x, depth |-> depth, isRoot |-> isRoot]}
         \cup (IF x.leaf THEN {}
               ELSE UNION {Nodes(x.C[j], depth + 1, FALSE) : j \in 1..(x.n + 1)})

\* The keys held anywhere below x.
SubtreeKeys(x) ==
    UNION {{e.node.keys[j] : j \in 1..e.node.n} : e \in Nodes(x, 0, TRUE)}

LeafDepths(x) == {e.depth : e \in {e \in Nodes(x, 0, TRUE) : e.node.leaf}}

\* Leaf depth: the distance from the root to the leftmost leaf; 0 for a
\* single leaf and for the empty tree.
RECURSIVE Height(_)
Height(x) == IF ~IsNode(x) \/ x.leaf THEN 0 ELSE 1 + Height(x.C[1])

\* The keys inserted so far, in ascending order, each as often as inserted.
RECURSIVE SortedFrom(_, _)
SortedFrom(bag, S) ==
    IF S = {} THEN << >>
    ELSE LET k == CHOOSE k \in S : \A j \in S : k <= j
         IN  [j \in 1..bag[k] |-> k] \o SortedFrom(bag, S \ {k})
SortedInserted == SortedFrom(inserted, DOMAIN inserted)

NonDecreasing(q) == \A j \in 1..(Len(q) - 1) : q[j] <= q[j + 1]

\* The invariants 1 to 6 of the data model, on the tree with root rt.
Inv1(rt) == \A e \in Nodes(rt, 0, TRUE) :
               e.node.n >= (IF e.isRoot THEN 1 ELSE CeilHalf(m) - 1)
Inv2(rt) == \A e \in Nodes(rt, 0, TRUE) : e.node.n <= m - 1
Inv3(rt) == \A e \in Nodes(rt, 0, TRUE) :
               \A j \in 1..(e.node.n - 1) : e.node.keys[j] < e.node.keys[j + 1]
Inv4(rt) == Cardinality(LeafDepths(rt)) <= 1
Inv5(rt) == \A e \in Nodes(rt, 0, TRUE) :
               e.node.leaf \/ \A j \in 1..(e.node.n + 1) : IsNode(e.node.C[j])
Inv6(rt) == \A e \in Nodes(rt, 0, TRUE) :
               e.node.leaf \/
               \A j \in 1..(e.node.n + 1) : \A k \in SubtreeKeys(e.node.C[j]) :
                   /\ j > 1 => e.node.keys[j - 1] < k
                   /\ j <= e.node.n => k < e.node.keys[j]
\* Invariant 6 with the bounds included.
Inv6Weak(rt) == \A e \in Nodes(rt, 0, TRUE) :
               e.node.leaf \/
               \A j \in 1..(e.node.n + 1) : \A k \in SubtreeKeys(e.node.C[j]) :
                   /\ j > 1 => e.node.keys[j - 1] <= k
                   /\ j <= e.node.n => k <= e.node.keys[j]

\* A recorded splitChild call e: the child y it was called on, and the
\* left node (y afterwards) and the right sibling z it left in the caller.
SplitOf(e) == e.s.C[e.i + 1]
LeftOf(e) == e.r.C[e.i + 1]
RightOf(e) == e.r.C[e.i + 2]
Without(q, j) == [a \in 1..(Len(q) - 1) |-> IF a < j THEN q[a] ELSE q[a + 1]]
ChildrenOfNode(x) == [j \in 1..(x.n + 1) |-> x.C[j]]
WasInserted(k) == k \in DOMAIN inserted /\ inserted[k] > 0

\* ------------------------------------------------------------ claims

\* C1 as stated: validate() returns true after every insert, whatever the
\* keys inserted.
C1_ValidateAfterEveryInsert ==
    ret.op = "validate" => ret.valid

\* C1 amended: for every order and every sequence of inserts of pairwise
\* distinct keys into an empty tree, validate() returns true after every
\* insert.
C1_ValidateAfterDistinctInserts ==
    (ret.op = "validate" /\ Repeats = 0) => ret.valid

C1_Witness ==
    /\ ret.op = "validate" /\ ret.valid
    /\ Repeats = 0
    /\ Height(root) = 2

\* C2: after any inserts traverse() runs to its end and prints a
\* non-decreasing sequence that is exactly the keys inserted so far, each
\* as often as it was inserted.
C2_TraverseIsSortedInserted ==
    /\ ret.op # "abort"
    /\ ret.op = "traverse" =>
          /\ NonDecreasing(ret.out)
          /\ ret.out = SortedInserted

C2_Witness ==
    /\ ret.op = "traverse"
    /\ Len(ret.out) = 7
    /\ Repeats = 1
    /\ Height(root) = 2

\* C3: search(k) returns a node exactly when k was inserted.
C3_SearchFindsExactlyInserted ==
    ret.op = "search" => (ret.found <=> WasInserted(ret.k))

\* C4 as stated: whenever validate() returns true the tree satisfies the
\* invariants 1 to 6, subtree ordering (strict) included.
C4_ValidateImpliesAllSix ==
    (ret.op = "validate" /\ ret.valid) =>
        /\ Inv1(root) /\ Inv2(root) /\ Inv3(root)
        /\ Inv4(root) /\ Inv5(root) /\ Inv6(root)

\* C4 amended: whenever validate() returns true the tree satisfies the
\* invariants 1 to 5, and the keys below children[i] lie between keys[i-1]
\* and keys[i] with the bounds included.
C4_ValidateImpliesFiveAndWeakOrder ==
    (ret.op = "validate" /\ ret.valid) =>
        /\ Inv1(root) /\ Inv2(root) /\ Inv3(root)
        /\ Inv4(root) /\ Inv5(root) /\ Inv6Weak(root)

C4_Witness ==
    /\ ret.op = "validate" /\ ret.valid
    /\ Repeats = 1
    /\ ~Inv6(root)

\* C5: an insert never lowers the height and raises it by at most one; it
\* raises it exactly when the root held m keys after root->insertNonFull
\* and was split, as child 0, under a new root; after every insert all
\* leaves are at one depth.
C5_HeightGrowsOnlyByRootSplit ==
    [][ret'.op = "insert" =>
          /\ Height(root') >= Height(root)
          /\ Height(root') <= Height(root) + 1
          /\ (Height(root') = Height(root) + 1) <=> ret'.grew
          /\ ret'.grew =>
               LET e == ret'.splits[Len(ret'.splits)]
               IN  /\ e.s.n = 0 /\ e.i = 0 /\ SplitOf(e).n = m
                   /\ e.r = root' /\ root'.n = 1 /\ ~root'.leaf
          /\ Cardinality(LeafDepths(root')) = 1]_vars

C5_Witness ==
    /\ ret.op = "insert" /\ ret.grew
    /\ Height(root) = 2

\* C6: order 3, inserts 8, 9, 10, 11, 15, 20, 17: after the third the tree
\* is a root [9] over the leaves [8] and [10]; after the seventh the
\* traversal is 8, 9, 10, 11, 15, 17, 20.
C6_Scenario ==
    m = 3 =>
        /\ Total = 3 =>
             /\ KeysOfNode(root) = <<9>> /\ ~root.leaf
             /\ KeysOfNode(root.C[1]) = <<8>> /\ root.C[1].leaf
             /\ KeysOfNode(root.C[2]) = <<10>> /\ root.C[2].leaf
        /\ (Total = 7 /\ ret.op = "traverse") =>
             ret.out = <<8, 9, 10, 11, 15, 17, 20>>

C6_Witness ==
    m = 3 /\ Total = 7 /\ ret.op = "traverse"

\* C7: search never evaluates `keys[i] == k` at an index i >= n.
C7_SearchStaysBelowN ==
    ret.op = "search" => ~ret.past

\* C8: every splitChild(i, y) on a y holding m sorted keys leaves the t-1
\* smallest in y, the m-t largest, in order, in the new sibling, the t-th
\* smallest in the caller at key index i and the sibling at child index
\* i+1; the caller's other keys and children keep their order.
C8_SplitPartitionsKeys ==
    ret.op = "insert" =>
      \A a \in 1..Len(ret.splits) :
        LET e  == ret.splits[a]
            y  == SplitOf(e)
            l  == LeftOf(e)
            z  == RightOf(e)
            ky == KeysOfNode(y)
        IN  (y.n = m /\ NonDecreasing(ky)) =>
              /\ KeysOfNode(l) = SubSeq(ky, 1, CeilHalf(m) - 1)
              /\ KeysOfNode(z) = SubSeq(ky, CeilHalf(m) + 1, m)
              /\ l.n = CeilHalf(m) - 1 /\ z.n = m - CeilHalf(m)
              /\ e.r.n = e.s.n + 1
              /\ e.r.keys[e.i + 1] = ky[CeilHalf(m)]
              /\ KeysOfNode(l) \o <<e.r.keys[e.i + 1]>> \o KeysOfNode(z) = ky
              /\ Without(KeysOfNode(e.r), e.i + 1) = KeysOfNode(e.s)
              /\ Without(ChildrenOfNode(e.r), e.i + 2)
                   = [ChildrenOfNode(e.s) EXCEPT ![e.i + 1] = l]
              /\ l.leaf = y.leaf /\ z.leaf = y.leaf

C8_Witness ==
    /\ ret.op = "insert"
    /\ m = 4
    /\ Len(ret.splits) = 2
    /\ ret.splits[1].s.n = m - 1
    /\ ~SplitOf(ret.splits[2]).leaf

\* C9: every splitChild on an internal y holding m keys makes y's child
\* references t..m the children 0..m-t of the new sibling and leaves
\* references 0..t-1 in y, so both halves have key count + 1 children.
C9_SplitMovesChildren ==
    ret.op = "insert" =>
      \A a \in 1..Len(ret.splits) :
        LET e == ret.splits[a]
            y == SplitOf(e)
            l == LeftOf(e)
            z == RightOf(e)
        IN  (y.n = m /\ ~y.leaf) =>
              /\ \A j \in 0..(m - CeilHalf(m)) : z.C[j + 1] = y.C[j + CeilHalf(m) + 1]
              /\ \A j \in 0..(CeilHalf(m) - 1) : l.C[j + 1] = y.C[j + 1]
              /\ \A j \in 1..(z.n + 1) : IsNode(z.C[j])
              /\ \A j \in 1..(l.n + 1) : IsNode(l.C[j])

\* C10: during an insert no node ever holds more than m keys, every
\* splitChild is called on a child holding exactly m keys, and between
\* calls every node holds at most m-1 keys.
C10_OverflowIsTransient ==
    /\ ret.op = "insert" =>
         /\ ret.maxn <= m
         /\ \A a \in 1..Len(ret.splits) : SplitOf(ret.splits[a]).n = m
    /\ \A e \in Nodes(root, 0, TRUE) : e.node.n <= m - 1

C10_Witness ==
    /\ ret.op = "insert"
    /\ ret.maxn = m
    /\ Len(ret.splits) = 2
====
